---- MODULE Spec2Model ----
(***************************************************************************)
(* A model of labwatch's LabAssistant (src/labwatch/assistant.py):         *)
(*   - the claim protocol of _dequeue_run / run_from_queue, run by several *)
(*     workers against one shared `runs` collection            (Spec),     *)
(*   - the incremental aggregation of update_optimizer, run by one         *)
(*     LabAssistant while jobs complete                        (SpecUpdate)*)
(*   - the search-space registry _verify_and_init_search_space, run by two *)
(*     LabAssistants against one `search_space` collection     (SpecSpace) *)
(* Python's None is the empty tuple <<>>, a present value x is <<x>>.      *)
(***************************************************************************)
EXTENDS Integers, Sequences, FiniteSets, TLC

VARIABLES
    now,             \* the wall clock: time.time() / datetime.datetime.now()
    runs,            \* the `runs` collection: job id -> document
    \* ---- _dequeue_run, one frame per worker
    pc,              \* where the worker is in run_from_queue/_dequeue_run
    run,             \* the local `run`: None or the document find_one returned
    remaining_time,  \* the local `remaining_time`
    start_time,      \* the local `start_time`
    wait_time,       \* the argument wait_time_in_s (max_wait) of the call
    sleep_time,      \* the argument sleep_time (poll_interval) of the call
    wake,            \* the time at which the current time.sleep ends
    ex_info,         \* self.ex.get_experiment_info() of the worker
    result,          \* what _dequeue_run returned (None or a document)
    blocked,         \* how long the call blocked: return time - start_time
    won,             \* the jobs whose replace_one by this worker modified a document
    lost,            \* the jobs whose replace_one by this worker modified nothing
    \* ---- one LabAssistant and its optimizer (update_optimizer)
    db,              \* self.db: None until _init_db
    current_search_space_name,   \* self.current_search_space_name
    known_jobs,      \* self.known_jobs
    last_checked,    \* self.last_checked: None or a time
    upc,             \* where the LabAssistant is in update_optimizer
    cursor,          \* the filter of the cursor `completed_jobs`
    info,            \* the local `info`: the jobs of the batch
    batch,           \* the jobs the cursor yielded that were not in known_jobs
    outcome,         \* per thread, how its latest call ended
    modifications,   \* the local `modifications`: the jobs still to write back
    delivered,       \* per job, how often it was passed to optimizer.update
    received,        \* the jobs self.optimizer (the object in use) has taken in
    checked,         \* the search-space names a cursor was built for so far
    fresh,           \* a job became COMPLETED since the latest call began
    quiet,           \* the running call follows a call for the same search
                     \* space with no completion since that call began
    \* ---- the search_space collection and the LabAssistants resolving
    db_search_space, \* self.db_search_space: the documents, in insertion order
    spc,             \* where the LabAssistant is in _verify_and_init_search_space
    space_from_ex,   \* the argument space_from_ex
    in_db,           \* the local `in_db`
    sp_id,           \* the local `sp_id`
    current_search_space,   \* self.current_search_space
    resolves,        \* how many calls the LabAssistant has begun
    \* ---- convert_result applied to a result
    conv_in,         \* the argument `result`
    conv_out         \* None, or what convert_result returned or raised

\* ------------------------------------------------------------------ bounds
MaxJobs == 2
MaxWorkers == 2
MaxTime == 1250
MaxStart == 0
TickLen == 250
MaxClock == 1
ClockStep == 1
MaxAssistants == 2
MaxResolves == 2
MaxThreads == 2
MaxValue == 25

\* ------------------------------------------------------- program constants
\* self.block_time = 1000
block_time == 1000

None == <<>>
Some(x) == <<x>>

Jobs == 1..MaxJobs
Workers == 1..MaxWorkers
Statuses == {"QUEUED", "INITIALIZING", "RUNNING", "COMPLETED", "FAILED"}
\* the experiment information (name, sources, dependencies) a run was queued
\* with, and the one a worker runs
ExInfos == {"v1", "v2"}
WaitTimes == {TickLen, 5 * TickLen}
SleepTimes == {TickLen}

claimVars == <<pc, run, remaining_time, start_time, wait_time, sleep_time,
               wake, ex_info, result, blocked, won, lost>>
updVars == <<db, current_search_space_name, known_jobs, last_checked, upc,
             cursor, info, batch, outcome, modifications, delivered, received,
             checked, fresh, quiet>>
spaceVars == <<db_search_space, spc, space_from_ex, in_db, sp_id,
               current_search_space, resolves>>
convVars == <<conv_in, conv_out>>
vars == <<now, runs, pc, run, remaining_time, start_time, wait_time,
          sleep_time, wake, ex_info, result, blocked, won, lost,
          db, current_search_space_name, known_jobs, last_checked, upc,
          cursor, info, batch, outcome, modifications, delivered, received,
          checked, fresh, quiet,
          db_search_space, spc, space_from_ex, in_db, sp_id,
          current_search_space, resolves, conv_in, conv_out>>

\* ------------------------------------------------------------ the job store
\* a document of the `runs` collection: result is None until the run is
\* COMPLETED, tag is meta.options.UPDATE (the name of the search space the
\* run was configured with), info is None until an optimizer's info is
\* written back. space is no field of the document: it records the _id of
\* the search space the run's config was drawn from, None where that plays
\* no part
RunDoc(id, status, experiment, heartbeat, res, tag) ==
    [_id |-> id, status |-> status, experiment |-> experiment,
     heartbeat |-> heartbeat, result |-> res, tag |-> tag, info |-> None,
     space |-> None]

\* a document with no result yet
Doc(id, status, experiment) == RunDoc(id, status, experiment, 0, None, "S")

\* a find_one whose criterion leaves the status out: any document
FindOneAny == {Some(runs[j]) : j \in Jobs}

\* self.runs.find_one(criterion): the documents it may return (any match),
\* None when nothing matches
FindOneQueued ==
    IF \E j \in Jobs : runs[j].status = "QUEUED"
    THEN {Some(runs[j]) : j \in {k \in Jobs : runs[k].status = "QUEUED"}}
    ELSE {None}

\* check_names, check_sources, check_dependencies: pass or raise
Compatible(local, doc) == local = doc.experiment

\* a replace_one whose filter leaves the status out: {'_id': run['_id']}
ReplaceMatchesIdOnly(id, old_status) == runs[id]._id = id

\* replace_one({'_id': .., 'status': old_status}, replacement): whether the
\* filter matches the stored document (modified_count == 1)
ReplaceMatches(id, old_status) == runs[id].status = old_status

\* ------------------------------------------------- run_from_queue / _dequeue_run
\* run_from_queue(wait_time_in_s, sleep_time) enters _dequeue_run:
\* remaining_time is the argument, run = None, start_time = time.time()
DequeueEnter(w) ==
    /\ pc[w] = "idle"
    /\ now <= MaxStart
    /\ \E wt \in WaitTimes, st \in SleepTimes, ei \in ExInfos :
         /\ ex_info' = [ex_info EXCEPT ![w] = ei]
         /\ wait_time' = [wait_time EXCEPT ![w] = wt]
         /\ sleep_time' = [sleep_time EXCEPT ![w] = st]
         /\ remaining_time' = [remaining_time EXCEPT ![w] = wt]
    /\ start_time' = [start_time EXCEPT ![w] = now]
    /\ run' = [run EXCEPT ![w] = None]
    /\ pc' = [pc EXCEPT ![w] = "loop"]
    /\ UNCHANGED <<now, runs, wake, result, blocked, won>>
    /\ UNCHANGED <<lost, updVars, spaceVars, convVars>>

\* a _dequeue_run that verifies the run after its replace_one: a run that
\* fails check_* is first written as INITIALIZING, then the error is raised
DequeueFindOneVerifyLate(w) ==
    /\ pc[w] = "loop"
    /\ remaining_time[w] > 0
    /\ \E r \in FindOneQueued :
         /\ run' = [run EXCEPT ![w] = r]
         /\ IF r = None
            THEN /\ pc' = [pc EXCEPT ![w] = "sleep"]
                 /\ wake' = [wake EXCEPT ![w] = now + sleep_time[w]]
                 /\ UNCHANGED <<runs, won>>
            ELSE IF Compatible(ex_info[w], r[1])
                 THEN /\ pc' = [pc EXCEPT ![w] = "replace"]
                      /\ UNCHANGED <<wake, runs, won>>
                 ELSE /\ pc' = [pc EXCEPT ![w] = "raised"]
                      /\ runs' = [runs EXCEPT ![r[1]._id].status = "INITIALIZING"]
                      /\ won' = [won EXCEPT ![w] = @ \cup {r[1]._id}]
                      /\ UNCHANGED wake
    /\ UNCHANGED <<now, remaining_time, start_time, wait_time,
                   sleep_time, ex_info, result, blocked>>
    /\ UNCHANGED <<lost, updVars, spaceVars, convVars>>

\* while remaining_time > 0: run = self.runs.find_one(criterion); an empty
\* queue starts the sleep, a found run is verified (check_* raise on a
\* mismatch) before its replace_one
DequeueFindOne(w) ==
    /\ pc[w] = "loop"
    /\ remaining_time[w] > 0
    /\ \E r \in FindOneQueued :
         /\ run' = [run EXCEPT ![w] = r]
         /\ IF r = None
            THEN /\ pc' = [pc EXCEPT ![w] = "sleep"]
                 /\ wake' = [wake EXCEPT ![w] = now + sleep_time[w]]
            ELSE /\ pc' = [pc EXCEPT ![w] =
                              IF Compatible(ex_info[w], r[1])
                              THEN "replace" ELSE "raised"]
                 /\ UNCHANGED wake
    /\ UNCHANGED <<now, runs, remaining_time, start_time, wait_time,
                   sleep_time, ex_info, result, blocked, won>>
    /\ UNCHANGED <<lost, updVars, spaceVars, convVars>>

\* time.sleep(sleep_time) is over: expired_time = time.time() - start_time;
\* remaining_time = self.block_time - expired_time
DequeueWake(w) ==
    /\ pc[w] = "sleep"
    /\ now >= wake[w]
    /\ remaining_time' = [remaining_time EXCEPT ![w] =
                             block_time - (now - start_time[w])]
    /\ pc' = [pc EXCEPT ![w] = "loop"]
    /\ UNCHANGED <<now, runs, run, start_time, wait_time, sleep_time, wake,
                   ex_info, result, blocked, won>>
    /\ UNCHANGED <<lost, updVars, spaceVars, convVars>>

\* a _dequeue_run that gives up (returns None) when its replace_one modified
\* nothing, instead of polling again
DequeueReplaceOneGiveUp(w) ==
    /\ pc[w] = "replace"
    /\ LET doc == run[w][1]
           claimed == [doc EXCEPT !.status = "INITIALIZING"]
       IN IF ReplaceMatches(doc._id, doc.status)
          THEN /\ runs' = [runs EXCEPT ![doc._id] = claimed]
               /\ run' = [run EXCEPT ![w] = Some(claimed)]
               /\ won' = [won EXCEPT ![w] = @ \cup {doc._id}]
               /\ result' = [result EXCEPT ![w] = Some(claimed)]
          ELSE /\ run' = [run EXCEPT ![w] = None]
               /\ result' = [result EXCEPT ![w] = None]
               /\ UNCHANGED <<runs, won>>
    /\ blocked' = [blocked EXCEPT ![w] = now - start_time[w]]
    /\ pc' = [pc EXCEPT ![w] = "done"]
    /\ UNCHANGED <<now, remaining_time, start_time, wait_time, sleep_time,
                   wake, ex_info>>
    /\ UNCHANGED <<lost, updVars, spaceVars, convVars>>

\* a _dequeue_run that treats a replace_one that modified nothing as an
\* empty poll: it sleeps and recomputes remaining_time
DequeueReplaceOneSleepOnLoss(w) ==
    /\ pc[w] = "replace"
    /\ LET doc == run[w][1]
           claimed == [doc EXCEPT !.status = "INITIALIZING"]
       IN IF ReplaceMatches(doc._id, doc.status)
          THEN /\ runs' = [runs EXCEPT ![doc._id] = claimed]
               /\ run' = [run EXCEPT ![w] = Some(claimed)]
               /\ won' = [won EXCEPT ![w] = @ \cup {doc._id}]
               /\ result' = [result EXCEPT ![w] = Some(claimed)]
               /\ blocked' = [blocked EXCEPT ![w] = now - start_time[w]]
               /\ pc' = [pc EXCEPT ![w] = "done"]
               /\ UNCHANGED <<lost, wake>>
          ELSE /\ run' = [run EXCEPT ![w] = Some(claimed)]
               /\ lost' = [lost EXCEPT ![w] = @ \cup {doc._id}]
               /\ pc' = [pc EXCEPT ![w] = "sleep"]
               /\ wake' = [wake EXCEPT ![w] = now + sleep_time[w]]
               /\ UNCHANGED <<runs, won, result, blocked>>
    /\ UNCHANGED <<now, remaining_time, start_time, wait_time, sleep_time,
                   ex_info>>
    /\ UNCHANGED <<updVars, spaceVars, convVars>>

\* old_status = run['status']; run['status'] = 'INITIALIZING';
\* replace_one({'_id', 'status': old_status}, replacement=run); a modified
\* document breaks out of the loop and returns run, otherwise the loop goes on
DequeueReplaceOne(w) ==
    /\ pc[w] = "replace"
    /\ LET doc == run[w][1]
           claimed == [doc EXCEPT !.status = "INITIALIZING"]
       IN IF ReplaceMatches(doc._id, doc.status)
          THEN /\ runs' = [runs EXCEPT ![doc._id] = claimed]
               /\ run' = [run EXCEPT ![w] = Some(claimed)]
               /\ won' = [won EXCEPT ![w] = @ \cup {doc._id}]
               /\ result' = [result EXCEPT ![w] = Some(claimed)]
               /\ blocked' = [blocked EXCEPT ![w] = now - start_time[w]]
               /\ pc' = [pc EXCEPT ![w] = "done"]
               /\ UNCHANGED lost
          ELSE /\ run' = [run EXCEPT ![w] = Some(claimed)]
               /\ lost' = [lost EXCEPT ![w] = @ \cup {doc._id}]
               /\ pc' = [pc EXCEPT ![w] = "loop"]
               /\ UNCHANGED <<runs, won, result, blocked>>
    /\ UNCHANGED <<now, remaining_time, start_time, wait_time, sleep_time,
                   wake, ex_info>>
    /\ UNCHANGED <<updVars, spaceVars, convVars>>

\* the loop condition fails: return run (run_from_queue then returns None)
DequeueReturn(w) ==
    /\ pc[w] = "loop"
    /\ remaining_time[w] <= 0
    /\ result' = [result EXCEPT ![w] = run[w]]
    /\ blocked' = [blocked EXCEPT ![w] = now - start_time[w]]
    /\ pc' = [pc EXCEPT ![w] = "done"]
    /\ UNCHANGED <<now, runs, run, remaining_time, start_time, wait_time,
                   sleep_time, wake, ex_info, won>>
    /\ UNCHANGED <<lost, updVars, spaceVars, convVars>>

\* time passes while no worker has a step to take at the current instant:
\* every worker is outside a call or inside a time.sleep that is not over
\* (the store operations and the checks take no time; only sleeping does)
Quiescent(w) ==
    \/ pc[w] \in {"idle", "done", "raised"}
    \/ pc[w] = "sleep" /\ wake[w] > now

Tick ==
    /\ now < MaxTime
    /\ \A w \in Workers : Quiescent(w)
    /\ \E w \in Workers : pc[w] = "sleep"
    /\ now' = now + TickLen
    /\ UNCHANGED <<runs, pc, run, remaining_time, start_time, wait_time,
                   sleep_time, wake, ex_info, result, blocked, won>>
    /\ UNCHANGED <<lost, updVars, spaceVars, convVars>>

\* ------------------------------------------------------ result conversion
\* the shapes of a run's result: a number, a dict with or without the key
\* optimization_target, anything else (a string)
Num(v) == [type |-> "number", value |-> v]
Str(v) == [type |-> "str", value |-> v]
Dict(target) == [type |-> "dict", optimization_target |-> target]

Returns(v) == [ok |-> TRUE, value |-> v]
Raises(e) == [ok |-> FALSE, error |-> e]

\* a convert_result without the isinstance assertion on the target
convert_result_unchecked(res) ==
    IF res.type = "dict"
    THEN IF res.optimization_target = None
         THEN Raises("ValueError")
         ELSE Returns(res.optimization_target[1].value)
    ELSE IF res.type # "number"
         THEN Raises("ValueError")
         ELSE Returns(res.value)

\* convert_result(result)
convert_result(res) ==
    IF res.type = "dict"
    THEN IF res.optimization_target = None
         THEN Raises("ValueError")
         ELSE IF res.optimization_target[1].type = "number"
              THEN Returns(res.optimization_target[1].value)
              ELSE Raises("AssertionError")
    ELSE IF res.type # "number"
         THEN Raises("ValueError")
         ELSE Returns(res.value)

\* ------------------------------------------ _verify_and_init_search_space
Assistants == 1..MaxAssistants
\* the structural definitions an experiment may declare
Definitions == {"d1", "d2"}

\* build_search_space(space): a SearchSpace not stored yet
SearchSpace(definition) == [definition |-> definition, _id |-> None]
\* space_from_ex.to_json(): the document to insert
to_json(space) == [_class |-> "SearchSpace", definition |-> space.definition]
\* SearchSpaceManipulator.transform_outgoing: a stored document comes out as
\* a SearchSpace
transform_outgoing(son) ==
    IF son._class = "SearchSpace"
    THEN [definition |-> son.definition, _id |-> Some(son._id)]
    ELSE son
\* sp == space_from_ex: structural equality
SpaceEq(sp, space) == sp.definition = space.definition

\* an empty search_space collection, no call under way
InitRegistry ==
    /\ db_search_space = <<>>
    /\ spc = [a \in Assistants |-> "idle"]
    /\ space_from_ex = [a \in Assistants |-> None]
    /\ in_db = [a \in Assistants |-> FALSE]
    /\ sp_id = [a \in Assistants |-> None]
    /\ current_search_space = [a \in Assistants |-> None]
    /\ resolves = [a \in Assistants |-> 0]

\* _verify_and_init_search_space(space_from_ex) is entered: in_db = False
VerifyEnter(a, d) ==
    /\ spc[a] \in {"idle", "done"}
    /\ resolves[a] < MaxResolves
    /\ resolves' = [resolves EXCEPT ![a] = @ + 1]
    /\ space_from_ex' = [space_from_ex EXCEPT ![a] = Some(SearchSpace(d))]
    /\ in_db' = [in_db EXCEPT ![a] = FALSE]
    /\ sp_id' = [sp_id EXCEPT ![a] = None]
    /\ spc' = [spc EXCEPT ![a] = "count"]
    /\ UNCHANGED <<db_search_space, current_search_space>>
    /\ UNCHANGED <<now, runs, claimVars, updVars, convVars>>

\* a _verify_and_init_search_space that tests count() > 1: a collection
\* holding one document is not searched
VerifyCountOffByOne(a) ==
    /\ spc[a] = "count"
    /\ spc' = [spc EXCEPT ![a] = IF Len(db_search_space) > 1 THEN "find"
                                  ELSE "insert"]
    /\ UNCHANGED <<db_search_space, space_from_ex, in_db, sp_id,
                   current_search_space, resolves>>
    /\ UNCHANGED <<now, runs, claimVars, updVars, convVars>>

\* if self.db_search_space.count() > 0
VerifyCount(a) ==
    /\ spc[a] = "count"
    /\ spc' = [spc EXCEPT ![a] = IF Len(db_search_space) > 0 THEN "find"
                                  ELSE "insert"]
    /\ UNCHANGED <<db_search_space, space_from_ex, in_db, sp_id,
                   current_search_space, resolves>>
    /\ UNCHANGED <<now, runs, claimVars, updVars, convVars>>

\* for sp in self.db_search_space.find(): every equal document is taken in
\* turn (no break), so the last equal one stays in current_search_space
VerifyFind(a) ==
    /\ spc[a] = "find"
    /\ LET equal == {i \in 1..Len(db_search_space) :
                        SpaceEq(transform_outgoing(db_search_space[i]),
                                space_from_ex[a][1])}
           last == CHOOSE i \in equal : \A k \in equal : k <= i
       IN IF equal # {}
          THEN /\ current_search_space' =
                     [current_search_space EXCEPT ![a] =
                         Some(transform_outgoing(db_search_space[last]))]
               /\ in_db' = [in_db EXCEPT ![a] = TRUE]
               /\ spc' = [spc EXCEPT ![a] = "done"]
          ELSE /\ spc' = [spc EXCEPT ![a] = "insert"]
               /\ UNCHANGED <<current_search_space, in_db>>
    /\ UNCHANGED <<db_search_space, space_from_ex, sp_id, resolves>>
    /\ UNCHANGED <<now, runs, claimVars, updVars, convVars>>

\* if not in_db: sp_id = self.db_search_space.insert(space_from_ex.to_json())
VerifyInsert(a) ==
    /\ spc[a] = "insert"
    /\ LET id == Len(db_search_space) + 1
       IN /\ db_search_space' =
                Append(db_search_space,
                       [_id |-> id,
                        _class |-> to_json(space_from_ex[a][1])._class,
                        definition |-> to_json(space_from_ex[a][1]).definition])
          /\ sp_id' = [sp_id EXCEPT ![a] = Some(id)]
    /\ spc' = [spc EXCEPT ![a] = "find_one"]
    /\ UNCHANGED <<space_from_ex, in_db, current_search_space, resolves>>
    /\ UNCHANGED <<now, runs, claimVars, updVars, convVars>>

\* self.current_search_space = self.db_search_space.find_one({"_id": sp_id})
VerifyFindOne(a) ==
    /\ spc[a] = "find_one"
    /\ current_search_space' =
          [current_search_space EXCEPT ![a] =
              Some(transform_outgoing(db_search_space[sp_id[a][1]]))]
    /\ spc' = [spc EXCEPT ![a] = "done"]
    /\ UNCHANGED <<db_search_space, space_from_ex, in_db, sp_id, resolves>>
    /\ UNCHANGED <<now, runs, claimVars, updVars, convVars>>

\* ------------------------------------------------------- update_optimizer
SpaceNames == {"S", "T"}
\* datetime.datetime.min: before every time of the clock
TimeMin == -1
\* the results a completing run may store
RunResults == {Num(7), Str("bad")}
\* the threads that call into one LabAssistant
Threads == 1..MaxThreads
\* the thread of a LabAssistant used from one thread only
Main == 1
\* self: the LabAssistant whose suggestion and update calls are followed; it
\* is one of the LabAssistants sharing the search_space collection
Self == 1

\* no update_optimizer call is under way
Idle == \A t \in Threads : upc[t] = "idle"

\* the state of a LabAssistant after __init__, with no call under way
\* (current_search_space_name is not set by __init__: None stands for the
\* missing attribute)
InitAssistant ==
    /\ db = None
    /\ current_search_space_name = None
    /\ known_jobs = {}
    /\ last_checked = None
    /\ upc = [t \in Threads |-> "idle"]
    /\ cursor = [t \in Threads |-> [heartbeat |-> TimeMin, name |-> None]]
    /\ info = [t \in Threads |-> {}]
    /\ batch = [t \in Threads |-> {}]
    /\ outcome = [t \in Threads |-> "none"]
    /\ modifications = [t \in Threads |-> {}]
    /\ delivered = [j \in Jobs |-> 0]
    /\ received = {}
    /\ checked = {}
    /\ fresh = FALSE
    /\ quiet = FALSE

\* self.runs.find(filter), when the cursor is iterated: the documents with
\* heartbeat >= the filter's, status COMPLETED and the filter's
\* meta.options.UPDATE
Find(filter) ==
    {j \in Jobs : /\ runs[j].heartbeat >= filter.heartbeat
                  /\ runs[j].status = "COMPLETED"
                  /\ Some(runs[j].tag) = filter.name}

\* _verify_and_init_search_space(space) with no other caller in between: the
\* collection afterwards and the SearchSpace left in current_search_space
VerifyAndInit(store, space) ==
    LET equal == {i \in 1..Len(store) :
                     SpaceEq(transform_outgoing(store[i]), space)}
        last == CHOOSE i \in equal : \A k \in equal : k <= i
        id == Len(store) + 1
        inserted == Append(store, [_id |-> id,
                                   _class |-> to_json(space)._class,
                                   definition |-> to_json(space).definition])
    IN IF Len(store) > 0 /\ equal # {}
       THEN [store |-> store, sp |-> transform_outgoing(store[last])]
       ELSE [store |-> inserted, sp |-> transform_outgoing(inserted[id])]

\* _search_space_wrapper(space, space_name): sets the name, connects the
\* database (_init_db), resolves the search space, makes a new optimizer
\* (which has received nothing) and asks get_suggestion, which calls
\* update_optimizer. known_jobs and last_checked are left as they are.
SearchSpaceWrapper(t, name, d) ==
    /\ upc[t] = "idle"
    /\ current_search_space_name' = Some(name)
    /\ db' = Some("db")
    /\ LET r == VerifyAndInit(db_search_space, SearchSpace(d))
       IN /\ db_search_space' = r.store
          /\ current_search_space' =
                [current_search_space EXCEPT ![Self] = Some(r.sp)]
    /\ received' = {}
    /\ upc' = [upc EXCEPT ![t] = "begin"]
    /\ UNCHANGED <<known_jobs, last_checked, cursor, info, batch, outcome,
                   modifications, delivered, checked, fresh, quiet>>
    /\ UNCHANGED <<spc, space_from_ex, in_db, sp_id, resolves>>
    /\ UNCHANGED <<now, runs, claimVars, convVars>>

\* set_database(database): self.db is set and the search space verified
\* again; before a search space is defined _verify_and_init_search_space(None)
\* finds no equal document and raises at None.to_json()
SetDatabase(t) ==
    /\ upc[t] = "idle"
    /\ db' = Some("db")
    /\ IF current_search_space[Self] = None
       THEN /\ outcome' = [outcome EXCEPT ![t] = "raised"]
            /\ UNCHANGED <<db_search_space, current_search_space>>
       ELSE LET r == VerifyAndInit(db_search_space,
                                   current_search_space[Self][1])
            IN /\ db_search_space' = r.store
               /\ current_search_space' =
                     [current_search_space EXCEPT ![Self] = Some(r.sp)]
               /\ UNCHANGED outcome
    /\ UNCHANGED <<current_search_space_name, known_jobs, last_checked, upc,
                   cursor, info, batch, modifications, delivered, received,
                   checked, fresh, quiet>>
    /\ UNCHANGED <<spc, space_from_ex, in_db, sp_id, resolves>>
    /\ UNCHANGED <<now, runs, claimVars, convVars>>

\* get_suggestion(): raises ValueError without a search space, otherwise
\* calls update_optimizer
GetSuggestion(t) ==
    /\ upc[t] = "idle"
    /\ IF current_search_space[Self] = None
       THEN /\ outcome' = [outcome EXCEPT ![t] = "raised"]
            /\ UNCHANGED upc
       ELSE /\ upc' = [upc EXCEPT ![t] = "begin"]
            /\ UNCHANGED outcome
    /\ UNCHANGED <<db, current_search_space_name, known_jobs, last_checked,
                   cursor, info, batch, modifications, delivered, received,
                   checked, fresh, quiet>>
    /\ UNCHANGED <<now, runs, claimVars, spaceVars, convVars>>

\* update_optimizer() called by the user of the LabAssistant
UpdateEnter(t) ==
    /\ upc[t] = "idle"
    /\ upc' = [upc EXCEPT ![t] = "begin"]
    /\ UNCHANGED <<db, current_search_space_name, known_jobs, last_checked,
                   cursor, info, batch, outcome, modifications, delivered,
                   received, checked, fresh, quiet>>
    /\ UNCHANGED <<now, runs, claimVars, spaceVars, convVars>>

\* update_optimizer, lines 268-295: without a database it warns and returns;
\* last_checked None becomes datetime.min; the cursor is built with the old
\* last_checked (reading a current_search_space_name that was never set
\* raises AttributeError); last_checked = now()
UpdateBegin(t) ==
    /\ upc[t] = "begin"
    /\ IF db = None
       THEN /\ outcome' = [outcome EXCEPT ![t] = "returned"]
            /\ upc' = [upc EXCEPT ![t] = "idle"]
            /\ UNCHANGED <<last_checked, cursor, checked, fresh, quiet>>
       ELSE IF current_search_space_name = None
            THEN /\ last_checked' = IF last_checked = None THEN Some(TimeMin)
                                    ELSE last_checked
                 /\ outcome' = [outcome EXCEPT ![t] = "raised"]
                 /\ upc' = [upc EXCEPT ![t] = "idle"]
                 /\ UNCHANGED <<cursor, checked, fresh, quiet>>
            ELSE /\ cursor' = [cursor EXCEPT ![t] =
                                 [heartbeat |-> IF last_checked = None
                                                THEN TimeMin
                                                ELSE last_checked[1],
                                  name |-> current_search_space_name]]
                 /\ last_checked' = Some(now)
                 /\ checked' = checked \cup {current_search_space_name[1]}
                 /\ quiet' = (cursor[t].name = current_search_space_name
                              /\ ~fresh)
                 /\ fresh' = FALSE
                 /\ upc' = [upc EXCEPT ![t] = "query"]
                 /\ UNCHANGED outcome
    /\ UNCHANGED <<db, current_search_space_name, known_jobs, info, batch,
                   modifications, delivered, received>>
    /\ UNCHANGED <<now, runs, claimVars, spaceVars, convVars>>

\* lines 297-299: the cursor is iterated; every job not in known_jobs is
\* converted, and a conversion that raises ends the call; an empty info
\* returns
UpdateQuery(t) ==
    /\ upc[t] = "query"
    /\ LET new == Find(cursor[t]) \ known_jobs
       IN /\ batch' = [batch EXCEPT ![t] = new]
          /\ IF \E j \in new : ~convert_result(runs[j].result[1]).ok
             THEN /\ upc' = [upc EXCEPT ![t] = "idle"]
                  /\ outcome' = [outcome EXCEPT ![t] = "raised"]
                  /\ info' = [info EXCEPT ![t] = {}]
                  /\ quiet' = FALSE
             ELSE IF new = {}
                  THEN /\ upc' = [upc EXCEPT ![t] = "idle"]
                       /\ outcome' = [outcome EXCEPT ![t] = "returned"]
                       /\ info' = [info EXCEPT ![t] = {}]
                       /\ quiet' = FALSE
                  ELSE /\ upc' = [upc EXCEPT ![t] = "known"]
                       /\ info' = [info EXCEPT ![t] = new]
                       /\ UNCHANGED <<outcome, quiet>>
    /\ UNCHANGED <<db, current_search_space_name, known_jobs, last_checked,
                   cursor, modifications, delivered, received, checked,
                   fresh>>
    /\ UNCHANGED <<now, runs, claimVars, spaceVars, convVars>>

\* an update_optimizer that forgets line 301
UpdateKnownSkipped(t) ==
    /\ upc[t] = "known"
    /\ upc' = [upc EXCEPT ![t] = "optimize"]
    /\ UNCHANGED <<db, current_search_space_name, known_jobs, last_checked,
                   cursor, info, batch, outcome, modifications, delivered,
                   received, checked, fresh, quiet>>
    /\ UNCHANGED <<now, runs, claimVars, spaceVars, convVars>>

\* line 301: self.known_jobs |= {job['_id'] for job in jobs}
UpdateKnown(t) ==
    /\ upc[t] = "known"
    /\ known_jobs' = known_jobs \cup info[t]
    /\ upc' = [upc EXCEPT ![t] = "optimize"]
    /\ UNCHANGED <<db, current_search_space_name, last_checked, cursor, info,
                   batch, outcome, modifications, delivered, received,
                   checked, fresh, quiet>>
    /\ UNCHANGED <<now, runs, claimVars, spaceVars, convVars>>

\* lines 302-304: the batch is passed to self.optimizer.update(configs,
\* results, jobs); it raises (having taken the batch in or not), or returns
\* None, or returns the jobs whose info it changed
UpdateOptimizer(t) ==
    /\ upc[t] = "optimize"
    /\ delivered' = [j \in Jobs |-> IF j \in info[t] THEN delivered[j] + 1
                                    ELSE delivered[j]]
    /\ info' = [info EXCEPT ![t] = {}]
    /\ \/ /\ outcome' = [outcome EXCEPT ![t] = "raised"]
          /\ upc' = [upc EXCEPT ![t] = "idle"]
          /\ quiet' = FALSE
          /\ \E kept \in {{}, info[t]} : received' = received \cup kept
          /\ UNCHANGED modifications
       \/ /\ outcome' = [outcome EXCEPT ![t] = "returned"]
          /\ upc' = [upc EXCEPT ![t] = "idle"]
          /\ quiet' = FALSE
          /\ received' = received \cup info[t]
          /\ UNCHANGED modifications
       \/ \E mods \in SUBSET info[t] \ {{}} :
             /\ modifications' = [modifications EXCEPT ![t] = mods]
             /\ upc' = [upc EXCEPT ![t] = "persist"]
             /\ received' = received \cup info[t]
             /\ UNCHANGED <<outcome, quiet>>
    /\ UNCHANGED <<db, current_search_space_name, known_jobs, last_checked,
                   cursor, batch, checked, fresh>>
    /\ UNCHANGED <<now, runs, claimVars, spaceVars, convVars>>

\* lines 305-310: for job in modifications (taken by ascending _id):
\* self.runs.update_one sets the job's info, or raises, and nothing catches
\* what it raises
UpdatePersist(t) ==
    /\ upc[t] = "persist"
    /\ LET job == CHOOSE j \in modifications[t] :
                      \A k \in modifications[t] : j <= k
           rest == modifications[t] \ {job}
       IN \/ /\ runs' = [runs EXCEPT ![job].info = Some("new_info")]
             /\ modifications' = [modifications EXCEPT ![t] = rest]
             /\ IF rest = {}
                THEN /\ outcome' = [outcome EXCEPT ![t] = "returned"]
                     /\ upc' = [upc EXCEPT ![t] = "idle"]
                     /\ quiet' = FALSE
                ELSE UNCHANGED <<outcome, upc, quiet>>
          \/ /\ outcome' = [outcome EXCEPT ![t] = "raised"]
             /\ upc' = [upc EXCEPT ![t] = "idle"]
             /\ modifications' = [modifications EXCEPT ![t] = {}]
             /\ quiet' = FALSE
             /\ UNCHANGED runs
    /\ UNCHANGED <<db, current_search_space_name, known_jobs, last_checked,
                   cursor, info, batch, delivered, received, checked,
                   fresh>>
    /\ UNCHANGED <<now, claimVars, spaceVars, convVars>>

\* a running job completes: its worker stores status COMPLETED, the result
\* and the heartbeat (the time of the store's clock) in one write
Complete(j) ==
    /\ runs[j].status = "RUNNING"
    /\ \E res \in RunResults :
         runs' = [runs EXCEPT ![j] = [@ EXCEPT !.status = "COMPLETED",
                                               !.heartbeat = now,
                                               !.result = Some(res)]]
    /\ fresh' = TRUE
    /\ quiet' = FALSE
    /\ UNCHANGED <<db, current_search_space_name, known_jobs, last_checked,
                   upc, cursor, info, batch, outcome, modifications,
                   delivered, received, checked>>
    /\ UNCHANGED <<now, claimVars, spaceVars, convVars>>

\* the clock of datetime.datetime.now() advances, in steps of ClockStep
ClockTick ==
    /\ now < MaxClock
    /\ now' = now + ClockStep
    /\ UNCHANGED <<runs, claimVars, updVars, spaceVars, convVars>>

\* no convert_result call is followed
NoConversion ==
    /\ conv_in = Num(0)
    /\ conv_out = None

\* the `runs` collection before any claim: jobs in any status, queued with
\* either experiment information
Init ==
    /\ now = 0
    /\ runs \in {f \in [Jobs -> {Doc(j, s, e) : j \in Jobs, s \in Statuses,
                                               e \in ExInfos}] :
                   \A j \in Jobs :
                       /\ f[j]._id = j
                       /\ (f[j].status # "QUEUED" => f[j].experiment = "v1")}
    /\ pc = [w \in Workers |-> "idle"]
    /\ run = [w \in Workers |-> None]
    /\ remaining_time = [w \in Workers |-> 0]
    /\ start_time = [w \in Workers |-> 0]
    /\ wait_time = [w \in Workers |-> 0]
    /\ sleep_time = [w \in Workers |-> 0]
    /\ wake = [w \in Workers |-> 0]
    /\ ex_info = [w \in Workers |-> "v1"]
    /\ result = [w \in Workers |-> None]
    /\ blocked = [w \in Workers |-> 0]
    /\ won = [w \in Workers |-> {}]
    /\ lost = [w \in Workers |-> {}]
    /\ InitAssistant
    /\ InitRegistry
    /\ NoConversion

Next ==
    \/ \E w \in Workers : DequeueEnter(w)
    \/ \E w \in Workers : DequeueFindOne(w)
    \/ \E w \in Workers : DequeueWake(w)
    \/ \E w \in Workers : DequeueReplaceOne(w)
    \/ \E w \in Workers : DequeueReturn(w)
    \/ Tick

Spec == Init /\ [][Next]_vars

\* the search_space collection once both definitions were resolved (by the
\* LabAssistants that queued the jobs)
StoredAtStart ==
    <<[_id |-> 1, _class |-> "SearchSpace", definition |-> "d1"],
      [_id |-> 2, _class |-> "SearchSpace", definition |-> "d2"]>>

\* that collection, no _verify_and_init_search_space call under way
InitRegistered ==
    /\ db_search_space = StoredAtStart
    /\ spc = [a \in Assistants |-> "idle"]
    /\ space_from_ex = [a \in Assistants |-> None]
    /\ in_db = [a \in Assistants |-> FALSE]
    /\ sp_id = [a \in Assistants |-> None]
    /\ current_search_space = [a \in Assistants |-> None]
    /\ resolves = [a \in Assistants |-> 0]

\* the definition the experiment declared under a name when the jobs were
\* queued, and the _id it is stored with
DeclaredAtStart(name) == IF name = "S" THEN "d1" ELSE "d2"
IdentityAtStart(name) ==
    StoredAtStart[CHOOSE i \in 1..Len(StoredAtStart) :
                     StoredAtStart[i].definition = DeclaredAtStart(name)]._id

\* the definitions the experiment may declare under a name by now: the one
\* it had, and for "S" also an edited one
DeclaredAs(name) ==
    IF name = "S" THEN Definitions ELSE {DeclaredAtStart(name)}

\* a run configured with the search space of that name, as it was declared
\* when the jobs were queued
DrawnDoc(id, tag) ==
    [RunDoc(id, "RUNNING", "v1", 0, None, tag)
        EXCEPT !.space = Some(IdentityAtStart(tag))]

\* jobs running for either search space, a LabAssistant just constructed
InitUpdate ==
    /\ now = 0
    /\ runs \in {f \in [Jobs -> {DrawnDoc(j, t) : j \in Jobs,
                                                    t \in SpaceNames}] :
                   \A j \in Jobs : f[j]._id = j}
    /\ pc = [w \in Workers |-> "idle"]
    /\ run = [w \in Workers |-> None]
    /\ remaining_time = [w \in Workers |-> 0]
    /\ start_time = [w \in Workers |-> 0]
    /\ wait_time = [w \in Workers |-> 0]
    /\ sleep_time = [w \in Workers |-> 0]
    /\ wake = [w \in Workers |-> 0]
    /\ ex_info = [w \in Workers |-> "v1"]
    /\ result = [w \in Workers |-> None]
    /\ blocked = [w \in Workers |-> 0]
    /\ won = [w \in Workers |-> {}]
    /\ lost = [w \in Workers |-> {}]
    /\ InitAssistant
    /\ InitRegistered
    /\ NoConversion

\* one thread uses the LabAssistant
NextUpdate ==
    \/ \E name \in SpaceNames : \E d \in DeclaredAs(name) :
          SearchSpaceWrapper(Main, name, d)
    \/ SetDatabase(Main)
    \/ GetSuggestion(Main)
    \/ UpdateEnter(Main)
    \/ UpdateBegin(Main)
    \/ UpdateQuery(Main)
    \/ UpdateKnown(Main)
    \/ UpdateOptimizer(Main)
    \/ UpdatePersist(Main)
    \/ \E j \in Jobs : Complete(j)
    \/ ClockTick

SpecUpdate == InitUpdate /\ [][NextUpdate]_vars

\* a LabAssistant whose _search_space_wrapper("S") has run at time 0, when no
\* job was COMPLETED: its update call found nothing
InitThreads ==
    /\ now = 0
    /\ runs \in {f \in [Jobs -> {DrawnDoc(j, t) : j \in Jobs,
                                                    t \in SpaceNames}] :
                   \A j \in Jobs : f[j]._id = j}
    /\ pc = [w \in Workers |-> "idle"]
    /\ run = [w \in Workers |-> None]
    /\ remaining_time = [w \in Workers |-> 0]
    /\ start_time = [w \in Workers |-> 0]
    /\ wait_time = [w \in Workers |-> 0]
    /\ sleep_time = [w \in Workers |-> 0]
    /\ wake = [w \in Workers |-> 0]
    /\ ex_info = [w \in Workers |-> "v1"]
    /\ result = [w \in Workers |-> None]
    /\ blocked = [w \in Workers |-> 0]
    /\ won = [w \in Workers |-> {}]
    /\ lost = [w \in Workers |-> {}]
    /\ db = Some("db")
    /\ current_search_space_name = Some("S")
    /\ known_jobs = {}
    /\ last_checked = Some(0)
    /\ upc = [t \in Threads |-> "idle"]
    /\ cursor = [t \in Threads |->
                   [heartbeat |-> TimeMin,
                    name |-> IF t = Main THEN Some("S") ELSE None]]
    /\ info = [t \in Threads |-> {}]
    /\ batch = [t \in Threads |-> {}]
    /\ outcome = [t \in Threads |-> IF t = Main THEN "returned" ELSE "none"]
    /\ modifications = [t \in Threads |-> {}]
    /\ delivered = [j \in Jobs |-> 0]
    /\ received = {}
    /\ checked = {"S"}
    /\ fresh = FALSE
    /\ quiet = FALSE
    /\ db_search_space = StoredAtStart
    /\ spc = [a \in Assistants |-> "idle"]
    /\ space_from_ex = [a \in Assistants |-> None]
    /\ in_db = [a \in Assistants |-> FALSE]
    /\ sp_id = [a \in Assistants |-> None]
    /\ current_search_space =
          [a \in Assistants |->
              IF a = Self
              THEN Some(VerifyAndInit(StoredAtStart,
                                      SearchSpace(DeclaredAtStart("S"))).sp)
              ELSE None]
    /\ resolves = [a \in Assistants |-> 0]
    /\ NoConversion

\* several threads ask the LabAssistant for suggestions
NextThreads ==
    \/ \E t \in Threads : GetSuggestion(t)
    \/ \E t \in Threads : UpdateBegin(t)
    \/ \E t \in Threads : UpdateQuery(t)
    \/ \E t \in Threads : UpdateKnown(t)
    \/ \E t \in Threads : UpdateOptimizer(t)
    \/ \E t \in Threads : UpdatePersist(t)
    \/ \E j \in Jobs : Complete(j)
    \/ ClockTick

SpecThreads == InitThreads /\ [][NextThreads]_vars

\* convert_result on its own, called with a result of every shape while the
\* assistant, the registry and the `runs` collection hold what they hold
Values == (0 - MaxValue)..MaxValue

ResultShapes ==
    {Num(v) : v \in Values}
      \cup {Dict(Some(Num(v))) : v \in Values}
      \cup {Dict(None), Dict(Some(Str("bad"))), Str("bad")}

Convert ==
    /\ conv_out = None
    /\ conv_out' = Some(convert_result(conv_in))
    /\ UNCHANGED <<conv_in, now, runs, claimVars, updVars, spaceVars>>

InitConvert ==
    /\ now = 0
    /\ runs = [j \in Jobs |-> RunDoc(j, "COMPLETED", "v1", 0, Some(Num(7)), "S")]
    /\ pc = [w \in Workers |-> "idle"]
    /\ run = [w \in Workers |-> None]
    /\ remaining_time = [w \in Workers |-> 0]
    /\ start_time = [w \in Workers |-> 0]
    /\ wait_time = [w \in Workers |-> 0]
    /\ sleep_time = [w \in Workers |-> 0]
    /\ wake = [w \in Workers |-> 0]
    /\ ex_info = [w \in Workers |-> "v1"]
    /\ result = [w \in Workers |-> None]
    /\ blocked = [w \in Workers |-> 0]
    /\ won = [w \in Workers |-> {}]
    /\ lost = [w \in Workers |-> {}]
    /\ InitAssistant
    /\ InitRegistry
    /\ conv_in \in ResultShapes
    /\ conv_out = None

NextConvert == Convert

SpecConvert == InitConvert /\ [][NextConvert]_vars

\* two LabAssistants, one empty search_space collection
InitSpace ==
    /\ now = 0
    /\ runs = [j \in Jobs |-> Doc(j, "QUEUED", "v1")]
    /\ pc = [w \in Workers |-> "idle"]
    /\ run = [w \in Workers |-> None]
    /\ remaining_time = [w \in Workers |-> 0]
    /\ start_time = [w \in Workers |-> 0]
    /\ wait_time = [w \in Workers |-> 0]
    /\ sleep_time = [w \in Workers |-> 0]
    /\ wake = [w \in Workers |-> 0]
    /\ ex_info = [w \in Workers |-> "v1"]
    /\ result = [w \in Workers |-> None]
    /\ blocked = [w \in Workers |-> 0]
    /\ won = [w \in Workers |-> {}]
    /\ lost = [w \in Workers |-> {}]
    /\ InitAssistant
    /\ InitRegistry
    /\ NoConversion

NextSpace ==
    \/ \E a \in Assistants, d \in Definitions : VerifyEnter(a, d)
    \/ \E a \in Assistants : VerifyCount(a)
    \/ \E a \in Assistants : VerifyFind(a)
    \/ \E a \in Assistants : VerifyInsert(a)
    \/ \E a \in Assistants : VerifyFindOne(a)

SpecSpace == InitSpace /\ [][NextSpace]_vars

\* no _verify_and_init_search_space call is under way
Sequential == \A a \in Assistants : spc[a] \in {"idle", "done"}

\* the LabAssistants resolve one after the other: a call begins only when no
\* other call is under way
NextSequential ==
    \/ \E a \in Assistants, d \in Definitions : Sequential /\ VerifyEnter(a, d)
    \/ \E a \in Assistants : VerifyCount(a)
    \/ \E a \in Assistants : VerifyFind(a)
    \/ \E a \in Assistants : VerifyInsert(a)
    \/ \E a \in Assistants : VerifyFindOne(a)

SpecSequential == InitSpace /\ [][NextSequential]_vars

\* ===================================================== the claim protocol
\* the jobs that were QUEUED before any claim: those still QUEUED and those
\* some worker's replace_one took
QueuedAtStart == {j \in Jobs : runs[j].status = "QUEUED"} \cup UNION {won[w] : w \in Workers}
Claimers == {w \in Workers : pc[w] = "done" /\ result[w] # None}
AllCallsOver == \A w \in Workers : pc[w] \in {"done", "raised"}

\* C1: at most one claimant. No job is won by two workers' conditional
\* writes, and a job a claim call returns is one whose conditional write that
\* same call won (and it is stored as claimed, no longer QUEUED).
C1_AtMostOneClaimant ==
    /\ \A w1, w2 \in Workers : w1 # w2 => won[w1] \cap won[w2] = {}
    /\ \A w \in Workers :
         (pc[w] = "done" /\ result[w] # None)
            => /\ won[w] = {result[w][1]._id}
               /\ runs[result[w][1]._id].status = "INITIALIZING"
    /\ \A w \in Workers : Cardinality(won[w]) <= 1

\* C1 witness: a worker returned a job for which another worker's
\* replace_one modified nothing (that worker read the job while it was QUEUED
\* and is back at the head of the loop holding it).
C1_Witness ==
    \E w1, w2 \in Workers :
        /\ w1 # w2
        /\ pc[w1] = "done" /\ result[w1] # None
        /\ pc[w2] = "loop" /\ run[w2] # None
        /\ run[w2][1]._id = result[w1][1]._id
        /\ won[w2] = {}

\* C2: no job is left unclaimed. Once every claim call is over, if all the
\* jobs that were QUEUED pass every worker's validation and there are at least
\* as many claimers as such jobs, the number of successful claims equals the
\* number of those jobs; and a call returns the timeout outcome only when no
\* job is QUEUED any more.
C2_NoJobLeftUnclaimed ==
    /\ (/\ AllCallsOver
        /\ \A w \in Workers, j \in QueuedAtStart : Compatible(ex_info[w], runs[j])
        /\ Cardinality(Workers) >= Cardinality(QueuedAtStart))
          => /\ Cardinality(Claimers) = Cardinality(QueuedAtStart)
             /\ \A j \in QueuedAtStart : \E w \in Claimers : won[w] = {j}
    /\ \A w \in Workers :
         (pc[w] = "done" /\ result[w] = None)
            => \A j \in Jobs : runs[j].status # "QUEUED"

\* C2 witness: as many QUEUED jobs as workers, every worker has returned a
\* job, and the jobs returned are all different.
C2_Witness ==
    /\ Cardinality(QueuedAtStart) = Cardinality(Workers)
    /\ Claimers = Workers
    /\ \A w1, w2 \in Workers : w1 # w2 => result[w1][1]._id # result[w2][1]._id

\* C8 as stated: after a claim call raised on a job that fails validation,
\* that job is stored as INITIALIZING.
C8_RaisedLeavesInitializing ==
    \A w \in Workers :
        pc[w] = "raised" => runs[run[w][1]._id].status = "INITIALIZING"

\* C8 amended: a claim call that raises on a job failing validation has not
\* written to the store: the job was not claimed by that call, and it is
\* still QUEUED unless another worker's conditional write has claimed it.
C8_RaisedLeavesJobUnclaimed ==
    \A w \in Workers :
        pc[w] = "raised"
           => /\ won[w] = {}
              /\ ~Compatible(ex_info[w], run[w][1])
              /\ \/ runs[run[w][1]._id] = run[w][1]
                 \/ \E w2 \in Workers \ {w} : won[w2] = {run[w][1]._id}

\* C8 witness: a call raised on a job, and another worker has since claimed
\* that same job.
C8_Witness ==
    \E w, w2 \in Workers :
        /\ pc[w] = "raised"
        /\ w2 # w
        /\ pc[w2] = "done"
        /\ won[w2] = {run[w][1]._id}

\* C9: a claim call on an empty queue returns the timeout outcome after
\* blocking for at most max_wait plus one poll_interval.
C9_TimeoutHonoursMaxWait ==
    \A w \in Workers :
        (pc[w] = "done" /\ result[w] = None)
           => blocked[w] <= wait_time[w] + sleep_time[w]

\* ================================================== the aggregation loop
\* a COMPLETED job of the search space in use
CompletedHere(j) ==
    /\ runs[j].status = "COMPLETED"
    /\ Some(runs[j].tag) = current_search_space_name
\* a job no later cursor can yield: its heartbeat is below the watermark
OutOfReach(j) == last_checked # None /\ runs[j].heartbeat < last_checked[1]
WellFormed(j) == convert_result(runs[j].result[1]).ok

\* C3: no completed result is missed. Between update calls, every COMPLETED
\* job of the search space in use with a well-formed result that later
\* cursors can no longer yield has been delivered to the optimizer, exactly
\* once.
C3_NoCompletedResultMissed ==
    Idle => \A j \in Jobs :
               (CompletedHere(j) /\ WellFormed(j) /\ OutOfReach(j))
                  => delivered[j] = 1

\* C4: no double delivery. A job is passed to optimizer.update at most once,
\* it is in known_jobs when it is passed (the batch about to be passed is
\* already in known_jobs) and it stays there.
C4_NoDoubleDelivery ==
    /\ \A j \in Jobs : delivered[j] <= 1
    /\ \A j \in Jobs : delivered[j] >= 1 => j \in known_jobs
    /\ upc[Main] = "optimize" => (info[Main] # {} /\ info[Main] \subseteq known_jobs)

\* C4 witness: a call that was not the first one has ended, its cursor
\* yielded again a job delivered by an earlier call, and that job still
\* counts one delivery.
C4_Witness ==
    /\ Idle
    /\ outcome[Main] = "returned"
    /\ cursor[Main].heartbeat # TimeMin
    /\ \E j \in Find(cursor[Main]) : j \notin batch[Main] /\ delivered[j] = 1

\* C5: boundary safety. After an update call, a COMPLETED job of the search
\* space in use with a well-formed result whose heartbeat equals the
\* watermark the previous call captured (the bound of this call's cursor)
\* has been delivered at most once, and exactly once if later cursors can no
\* longer yield it.
C5_BoundarySafety ==
    (Idle /\ cursor[Main].heartbeat # TimeMin)
       => \A j \in Jobs :
             (/\ CompletedHere(j) /\ WellFormed(j)
              /\ runs[j].heartbeat = cursor[Main].heartbeat)
                => /\ delivered[j] <= 1
                   /\ OutOfReach(j) => delivered[j] = 1

\* C6: idempotent aggregation. An update call that follows another call for
\* the same search space, with no job becoming COMPLETED since that call
\* began, consumes nothing: it has no batch to add to known_jobs or to pass
\* to the optimizer.
C6_IdempotentAggregation ==
    quiet => (upc[Main] \notin {"known", "optimize"} /\ info[Main] = {})

\* C7: per-job isolation of conversion failures. When an update call has
\* ended, every well-formed job its cursor yielded that was not in
\* known_jobs has been delivered, whatever the other jobs of the batch.
C7_ConversionFailureIsolated ==
    (Idle /\ outcome[Main] # "none")
       => \A j \in batch[Main] : WellFormed(j) => delivered[j] >= 1

\* C12: auxiliary-info persistence is best-effort. An update call that has
\* reached the write-back of the info the optimizer changed ends normally,
\* whether its update_one calls succeed or fail, and its batch stays in
\* known_jobs.
C12_PersistenceBestEffort ==
    [][\A t \in Threads :
          (upc[t] = "persist" /\ upc'[t] = "idle")
             => /\ outcome'[t] = "returned"
                /\ batch[t] \subseteq known_jobs'
      ]_vars

\* no search space has been established
NoSpace == current_search_space[Self] = None

\* C13: while no search space is established, no suggestion or
\* update call returns normally, none queries the store or invokes the
\* optimizer, and known_jobs and last_checked stay as __init__ left them.
C13_PreconditionReported ==
    NoSpace
       => /\ \A t \in Threads :
               /\ upc[t] \in {"idle", "begin"}
               /\ outcome[t] # "returned"
          /\ known_jobs = {}
          /\ last_checked = None
          /\ \A j \in Jobs : delivered[j] = 0

\* C15: the watermark is per search space. The first update call made for a
\* search space builds its cursor from the minimum timestamp, so the cursor
\* yields every COMPLETED job tagged with that space.
C15_WatermarkPerSearchSpace ==
    [][\A t \in Threads :
          (/\ upc[t] = "begin" /\ upc'[t] = "query"
           /\ current_search_space_name[1] \notin checked)
             => /\ cursor'[t].heartbeat = TimeMin
                /\ Find(cursor'[t]) = {j \in Jobs : CompletedHere(j)}
      ]_vars

\* C17: update is serialized within one LabAssistant. Whatever the
\* interleaving of the threads calling update_optimizer, no job is passed to
\* the optimizer twice.
C17_UpdateSerialized ==
    \A j \in Jobs : delivered[j] <= 1

\* C18: known_jobs equals the delivered set. Between update calls, every
\* job in known_jobs is one the optimizer in use (the optimizer of the
\* current search space) has received.
C18_KnownJobsWereDelivered ==
    Idle => known_jobs \subseteq received

\* C19: every job about to be passed to the optimizer is
\* COMPLETED, carries the tag of the search space in use and was drawn from
\* the search space with the persisted identity of the one in use.
C19_FilterByIdentity ==
    \A t \in Threads :
        upc[t] = "optimize"
           => \A j \in info[t] :
                 /\ runs[j].status = "COMPLETED"
                 /\ Some(runs[j].tag) = current_search_space_name
                 /\ runs[j].space = current_search_space[Self][1]._id

\* ================================================ the search-space registry
Stored(d) == {i \in 1..Len(db_search_space) : db_search_space[i].definition = d}

\* C10: a search space is stored at most once under concurrency. The
\* collection never holds two documents for one definition, and two
\* LabAssistants that have resolved the same definition hold the same
\* identity.
C10_StoredAtMostOnce ==
    /\ \A d \in Definitions : Cardinality(Stored(d)) <= 1
    /\ \A a1, a2 \in Assistants :
         (/\ spc[a1] = "done" /\ spc[a2] = "done"
          /\ space_from_ex[a1] = space_from_ex[a2])
            => current_search_space[a1][1]._id = current_search_space[a2][1]._id

\* the definition a LabAssistant is resolving or has resolved
Resolving(a) == space_from_ex[a][1].definition

\* C11: sequential resolution is idempotent. When calls do not overlap: the
\* collection holds at most one document per definition; a call that ends
\* holds the stored document of its definition, so every resolution of one
\* definition returns the same identity; a call that ends for the definition
\* the LabAssistant already held returns the identity it held and has
\* inserted nothing; and no step modifies or removes a stored document.
C11_SequentialIdempotent ==
    [][/\ \A d \in Definitions : Cardinality(Stored(d))' <= 1
       /\ Len(db_search_space') >= Len(db_search_space)
       /\ \A i \in 1..Len(db_search_space) :
             db_search_space'[i] = db_search_space[i]
       /\ \A a \in Assistants :
             (spc[a] # "done" /\ spc'[a] = "done")
                => /\ current_search_space'[a][1].definition = Resolving(a)
                   /\ Stored(Resolving(a))' = {current_search_space'[a][1]._id[1]}
                   /\ (/\ current_search_space[a] # None
                       /\ current_search_space[a][1].definition = Resolving(a))
                         => /\ current_search_space'[a] = current_search_space[a]
                            /\ sp_id[a] = None
       /\ \A a1, a2 \in Assistants :
             (/\ spc'[a1] = "done" /\ spc'[a2] = "done"
              /\ space_from_ex'[a1] = space_from_ex'[a2])
                => current_search_space'[a1] = current_search_space'[a2]
      ]_vars

\* C11 witness: one LabAssistant has resolved twice, its second call found
\* the definition stored (in_db) and the collection holds one document, so
\* both its calls resolved that definition.
C11_Witness ==
    \E a \in Assistants :
        /\ resolves[a] = 2
        /\ spc[a] = "done"
        /\ in_db[a]
        /\ Len(db_search_space) = 1
        /\ current_search_space[a][1]._id = Some(1)

\* ------------------------------------------------- the claim protocol, continued

AnyQueued == \E j \in Jobs : runs[j].status = "QUEUED"

C20_ClaimFrame ==
    [][/\ runs' # runs =>
            \E w \in Workers, j \in Jobs :
              /\ pc[w] = "replace" /\ pc'[w] = "done"
              /\ runs[j].status = "QUEUED"
              /\ runs' = [runs EXCEPT ![j].status = "INITIALIZING"]
              /\ won'[w] = won[w] \cup {j}
              /\ result'[w] = Some(runs'[j])
       /\ \A w \in Workers :
            /\ won'[w] # won[w] => runs' # runs
            /\ (pc'[w] = "raised" \/ (pc'[w] = "done" /\ result'[w] = None)) =>
                 won'[w] = {}
            /\ (pc'[w] = "done" /\ result'[w] # None) =>
                 won'[w] = {result'[w][1]._id}]_vars

\* one call lost a race and then timed out while another call claimed a job
C20_Witness ==
    \E w, v \in Workers :
      /\ pc[w] = "done" /\ result[w] = None /\ lost[w] # {} /\ won[w] = {}
      /\ pc[v] = "done" /\ result[v] # None
      /\ \E j \in Jobs : runs[j].status \notin {"QUEUED", "INITIALIZING"}

\* ------------------------------------------------------------ convert_result

\* C14: a number converts to itself; a dict with a numeric
\* optimization_target converts to that target; a dict without the key, a
\* dict whose target is not a number and any other shape are errors; the
\* conversion changes neither the assistant nor the store nor its argument.
C14_ConvertResultShapes ==
    [][conv_out' # conv_out =>
         /\ conv_out' # None
         /\ LET out == conv_out'[1]
                res == conv_in
            IN CASE res.type = "number" ->
                      out.ok /\ out.value = res.value
                 [] res.type = "dict" /\ res.optimization_target = None ->
                      ~out.ok
                 [] res.type = "dict" /\ res.optimization_target # None ->
                      IF res.optimization_target[1].type = "number"
                      THEN out.ok /\ out.value = res.optimization_target[1].value
                      ELSE ~out.ok
                 [] OTHER -> ~out.ok
         /\ UNCHANGED <<conv_in, now, runs, claimVars, updVars, spaceVars>>]_vars

\* a dict whose optimization_target is not a number was converted
C14_Witness ==
    /\ conv_out # None
    /\ conv_in.type = "dict"
    /\ conv_in.optimization_target # None
    /\ conv_in.optimization_target[1].type # "number"
    /\ ~conv_out[1].ok

====
